---- MODULE Spec2Model ----
(***************************************************************************)
(* A model of src/pdf-parser/parseXRefTable.js: the recognizer of the      *)
(* classical cross reference table of a PDF document.  A byte buffer is a  *)
(* sequence of char codes, a JavaScript string a sequence of one-character *)
(* strings.  The three functions parseXRefTable, parseSubsections and      *)
(* parseEntries are modelled loop iteration by loop iteration.             *)
(***************************************************************************)
EXTENDS Integers, Sequences, FiniteSets, TLC

(***************************************************************************)
(* Characters and bytes                                                    *)
(***************************************************************************)

\* U+0000, what String.fromCharCode gives for an undefined array element.
NUL == "NUL"

\* The value of an array read outside the array's bounds.
undefined == -1

DigitChars == <<"0", "1", "2", "3", "4", "5", "6", "7", "8", "9">>

Digits == {DigitChars[i] : i \in 1..10}

\* The characters the model's buffers are made of, with their char codes.
AsciiTable ==
  {<<DigitChars[i], 47 + i>> : i \in 1..10} \cup
  { <<"\t", 9>>, <<"\n", 10>>, <<"\r", 13>>, <<" ", 32>>, <<"|", 124>>,
    <<"N", 78>>, <<"X", 88>>, <<"a", 97>>, <<"b", 98>>, <<"e", 101>>,
    <<"f", 102>>, <<"i", 105>>, <<"j", 106>>, <<"l", 108>>, <<"n", 110>>,
    <<"o", 111>>, <<"r", 114>>, <<"t", 116>>, <<"x", 120>> }

\* String.fromCharCode(b): undefined converts to 0, hence to U+0000.
fromCharCode(b) ==
  IF \E p \in AsciiTable : p[2] = b
  THEN (CHOOSE p \in AsciiTable : p[2] = b)[1]
  ELSE NUL

\* "c".charCodeAt(0), used to write the buffers of the model.
charCode(c) == (CHOOSE p \in AsciiTable : p[1] = c)[2]

\* arr[i] of a typed array, i counted from 0.
elementAt(arr, i) == IF i >= 0 /\ i < Len(arr) THEN arr[i + 1] ELSE undefined

\* The bytes of a text.
bytesOf(s) == [i \in 1..Len(s) |-> charCode(s[i])]

(***************************************************************************)
(* Library functions                                                       *)
(***************************************************************************)

\* The white space String.prototype.trim removes, within the model's characters.
JsWhiteSpace == {" ", "\n", "\r", "\t"}

\* s.substring(n)
substring(s, n) == SubSeq(s, (IF n > Len(s) THEN Len(s) ELSE n) + 1, Len(s))

\* The length of the longest run of characters of class cls that starts at s[p].
RECURSIVE runAt(_, _, _)
runAt(s, p, cls) ==
  IF p >= 1 /\ p <= Len(s) /\ s[p] \in cls THEN 1 + runAt(s, p + 1, cls) ELSE 0

\* The length of the longest run of characters of class cls that ends at s[p].
RECURSIVE runBefore(_, _, _)
runBefore(s, p, cls) ==
  IF p >= 1 /\ p <= Len(s) /\ s[p] \in cls THEN 1 + runBefore(s, p - 1, cls) ELSE 0

\* s.trim()
trim(s) ==
  LET lead == runAt(s, 1, JsWhiteSpace)
  IN IF lead = Len(s) THEN <<>>
     ELSE SubSeq(s, lead + 1, Len(s) - runBefore(s, Len(s), JsWhiteSpace))

(***************************************************************************)
(* Numbers.  A JavaScript Number that is a non-negative integer is          *)
(* represented by its decimal expansion, a sequence of digits with no       *)
(* leading zero; Number(s) is the IEEE 754 double nearest to the decimal    *)
(* s, which is s itself below 2^53.                                        *)
(***************************************************************************)

\* The value of a digit.
digitValue(c) == (CHOOSE i \in 1..10 : DigitChars[i] = c) - 1

\* The Number Infinity.
Infinity == <<"Infinity">>

\* 2^53: up to it every integer is a double.
TwoTo53 == <<"9", "0", "0", "7", "1", "9", "9", "2", "5", "4", "7", "4", "0", "9", "9", "2">>

\* The greatest finite double is (2^53 - 1) * 2^971.
MaxExponent == 971

\* The digits of s without leading zeros; zero is "0".
stripZeros(s) ==
  LET significant == {i \in 1..Len(s) : s[i] # "0"}
  IN IF significant = {} THEN <<"0">>
     ELSE SubSeq(s, CHOOSE i \in significant : \A j \in significant : i <= j, Len(s))

\* Whether a < b, for two expansions of the same length: at the first
\* position where they differ a has the smaller digit.
lexLess(a, b) ==
  LET differ == {i \in 1..Len(a) : a[i] # b[i]}
  IN /\ differ # {}
     /\ LET i == CHOOSE k \in differ : \A j \in differ : k <= j
        IN digitValue(a[i]) < digitValue(b[i])

\* Whether a < b, for two expansions with no leading zeros.
lessThan(a, b) == Len(a) < Len(b) \/ (Len(a) = Len(b) /\ lexLess(a, b))

\* Whether s is odd.
isOdd(s) == digitValue(s[Len(s)]) % 2 = 1

\* s div 2: each digit is halved, and takes 5 from an odd digit on its left.
halve(s) ==
  stripZeros([i \in 1..Len(s) |->
    DigitChars[(digitValue(s[i]) \div 2)
               + (IF i > 1 /\ digitValue(s[i - 1]) % 2 = 1 THEN 5 ELSE 0) + 1]])

\* 2 * s: each digit is doubled, and takes the carry of the digit on its
\* right, which is 1 when that digit is 5 or more.
double(s) ==
  stripZeros([i \in 1..(Len(s) + 1) |->
    DigitChars[(((IF i > 1 THEN 2 * digitValue(s[i - 1]) ELSE 0)
                 + (IF i <= Len(s) /\ digitValue(s[i]) >= 5 THEN 1 ELSE 0)) % 10) + 1]])

\* s + 1: the digit before the trailing nines is incremented, the nines
\* become zeros.
increment(s) ==
  LET notNine == {i \in 1..Len(s) : s[i] # "9"}
      last == IF notNine = {} THEN 0
              ELSE CHOOSE i \in notNine : \A j \in notNine : j <= i
  IN (IF last = 0 THEN <<"1">>
      ELSE SubSeq(s, 1, last - 1) \o <<DigitChars[digitValue(s[last]) + 2]>>)
     \o [i \in 1..(Len(s) - last) |-> "0"]

\* At most fuel doublings of d.m, d.e of them in all.
RECURSIVE doubleSome(_, _)
doubleSome(d, fuel) ==
  IF d.e = 0 \/ fuel = 0 THEN d
  ELSE doubleSome([m |-> double(d.m), e |-> d.e - 1], fuel - 1)

\* m * 2^e
RECURSIVE shiftUp(_)
shiftUp(d) == IF d.e = 0 THEN d.m ELSE shiftUp(doubleSome(d, 32))

\* At most fuel halvings of d.m while it is 2^53 or more, with the number e of
\* halvings, the last bit dropped (guard) and whether an earlier dropped bit
\* was 1 (sticky).
RECURSIVE halveSome(_, _)
halveSome(d, fuel) ==
  IF lessThan(d.m, TwoTo53) \/ fuel = 0 THEN d
  ELSE halveSome([m |-> halve(d.m), e |-> d.e + 1,
                  guard |-> isOdd(d.m), sticky |-> d.sticky \/ d.guard], fuel - 1)

\* m divided by 2 until it is below 2^53.
RECURSIVE shiftDown(_)
shiftDown(d) == IF lessThan(d.m, TwoTo53) THEN d ELSE shiftDown(halveSome(d, 32))

\* The double nearest to the integer n (ties to the even mantissa).
nearestDouble(n) ==
  LET d == shiftDown([m |-> n, e |-> 0, guard |-> FALSE, sticky |-> FALSE])
      up == d.guard /\ (d.sticky \/ isOdd(d.m))
      mantissa == IF up THEN increment(d.m) ELSE d.m
  IN IF d.e > MaxExponent \/ (d.e = MaxExponent /\ mantissa = TwoTo53) THEN Infinity
     ELSE shiftUp([m |-> mantissa, e |-> d.e])

\* Number(s) of a string of decimal digits.
Number(s) == nearestDouble(stripZeros(s))

\* The white space trimArray removes from the beginning of a buffer.
TrimArrayWhiteSpace == {" ", "\n", "\r"}

\* arrayToString(arr, startAt, stopAt) of ../utils: one character per byte.
arrayToString(arr, startAt, stopAt) ==
  LET stop == IF stopAt >= Len(arr) THEN Len(arr) ELSE stopAt
  IN [i \in 1..(IF stop > startAt THEN stop - startAt ELSE 0) |->
        fromCharCode(arr[startAt + i])]

\* trimArray(arr) of ../utils: the subarray that begins after the leading
\* white space; the bytes that follow, white space at the end included, are
\* kept.
trimArray(arr) ==
  LET lead == runAt(arrayToString(arr, 0, Len(arr)), 1, TrimArrayWhiteSpace)
  IN SubSeq(arr, lead + 1, Len(arr))

\* arr.subarray(begin)
subarray(arr, begin) == SubSeq(arr, (IF begin > Len(arr) THEN Len(arr) ELSE begin) + 1, Len(arr))

(***************************************************************************)
(* The regular expressions                                                 *)
(***************************************************************************)

\* The widths of the two numbers of an entry: \d{10} and \d{5}.
OffsetWidth == 10
GenNumWidth == 5

\* The length of an entry: \d{10} \d{5} (n|f)
EntryWidth == OffsetWidth + 1 + GenNumWidth + 1 + 1

\* Whether \d{10} \d{5} (n|f) matches s at position p (counted from 1).
entryAt(s, p) ==
  /\ p >= 1
  /\ p + EntryWidth - 1 <= Len(s)
  /\ \A i \in p..(p + OffsetWidth - 1) : s[i] \in Digits
  /\ s[p + OffsetWidth] = " "
  /\ \A i \in (p + OffsetWidth + 1)..(p + OffsetWidth + GenNumWidth) : s[i] \in Digits
  /\ s[p + OffsetWidth + GenNumWidth + 1] = " "
  /\ s[p + EntryWidth - 1] \in {"n", "f"}

\* entryRegex with the flag f left out: /^(\d{10}) (\d{5}) (n)/
entryRegexInUseOnly(s) ==
  IF entryAt(s, 1) /\ s[EntryWidth] = "n"
  THEN [matched |-> TRUE,
        fullMatch |-> SubSeq(s, 1, EntryWidth),
        offset |-> SubSeq(s, 1, OffsetWidth),
        genNum |-> SubSeq(s, OffsetWidth + 2, OffsetWidth + 1 + GenNumWidth),
        isInUse |-> SubSeq(s, EntryWidth, EntryWidth)]
  ELSE [matched |-> FALSE]

\* remainder.match(/^(\d{10}) (\d{5}) (n|f)/): the match and its groups, or no match.
entryRegex(s) ==
  IF entryAt(s, 1)
  THEN [matched |-> TRUE,
        fullMatch |-> SubSeq(s, 1, EntryWidth),
        offset |-> SubSeq(s, 1, OffsetWidth),
        genNum |-> SubSeq(s, OffsetWidth + 2, OffsetWidth + 1 + GenNumWidth),
        isInUse |-> SubSeq(s, EntryWidth, EntryWidth)]
  ELSE [matched |-> FALSE]

\* The class (\n|\r| ) of sectionsRegex.
SectionWhiteSpace == {"\n", "\r", " "}

\* Where the greedy (\d{10} \d{5} (n|f)(\n|\r| )*)+ ends, given that an entry
\* matches at p: the position after the last entry and its white space.
RECURSIVE entriesEnd(_, _)
entriesEnd(s, p) ==
  LET q == p + EntryWidth + runAt(s, p + EntryWidth, SectionWhiteSpace)
  IN IF entryAt(s, q) THEN entriesEnd(s, q) ELSE q

\* remainder.match(/^(\d+) (\d+)((\n|\r| )*(\d{10} \d{5} (n|f)(\n|\r| )*)+)/)
\* The second (\d+) is greedy and gives digits back until the rest matches.
sectionsRegex(s) ==
  LET d1 == runAt(s, 1, Digits)
      d2 == runAt(s, d1 + 2, Digits)
      \* the position after a second number of j digits
      after(j) == d1 + 2 + j
      \* where the first entry must start when the second number has j digits
      first(j) == after(j) + runAt(s, after(j), SectionWhiteSpace)
      fits == {j \in 1..d2 : entryAt(s, first(j))}
  IN IF d1 >= 1 /\ d1 + 1 <= Len(s) /\ s[d1 + 1] = " " /\ fits # {}
     THEN LET j == CHOOSE k \in fits : \A m \in fits : k >= m
              end == entriesEnd(s, first(j))
          IN [matched |-> TRUE,
              fullMatch |-> SubSeq(s, 1, end - 1),
              firstObjNum |-> SubSeq(s, 1, d1),
              objCount |-> SubSeq(s, d1 + 2, d1 + 1 + j),
              entriesStr |-> SubSeq(s, after(j), end - 1)]
     ELSE [matched |-> FALSE]

\* The class [\n|\r| ] of xRefTableRegex: the bar is a member of the class.
XRefWhiteSpace == {"\n", "|", "\r", " "}

\* The class [\d|\n|\r| |f|n] of xRefTableRegex.
XRefBody == Digits \cup {"|", "\n", "\r", " ", "f", "n"}

\* The keyword of xRefTableRegex.
XRefKeyword == <<"x", "r", "e", "f">>

\* xRefTableRegex with no ^ anchor: the first match anywhere in the text.
xRefTableRegexUnanchored(s) ==
  LET k == Len(XRefKeyword)
      ws(o) == runAt(s, o + k + 1, XRefWhiteSpace)
      fits(o) == {a \in 0..ws(o) : runAt(s, o + k + 1 + a, XRefBody) >= 1}
      starts == {o \in 0..Len(s) :
                   /\ Len(s) >= o + k
                   /\ SubSeq(s, o + 1, o + k) = XRefKeyword
                   /\ fits(o) # {}}
  IN IF starts # {}
     THEN LET o == CHOOSE b \in starts : \A m \in starts : b <= m
              a == CHOOSE b \in fits(o) : \A m \in fits(o) : b >= m
              n == runAt(s, o + k + 1 + a, XRefBody)
          IN [matched |-> TRUE,
              fullMatch |-> SubSeq(s, o + 1, o + k + a + n),
              contents |-> SubSeq(s, o + k + a + 1, o + k + a + n)]
     ELSE [matched |-> FALSE]

\* text.match(/^xref[\n|\r| ]*([\d|\n|\r| |f|n]+)/): the white space is greedy
\* and gives characters back until the group has at least one character.
xRefTableRegex(s) ==
  LET k == Len(XRefKeyword)
      ws == runAt(s, k + 1, XRefWhiteSpace)
      fits == {a \in 0..ws : runAt(s, k + 1 + a, XRefBody) >= 1}
  IN IF Len(s) >= k /\ SubSeq(s, 1, k) = XRefKeyword /\ fits # {}
     THEN LET a == CHOOSE b \in fits : \A m \in fits : b >= m
              n == runAt(s, k + 1 + a, XRefBody)
          IN [matched |-> TRUE,
              fullMatch |-> SubSeq(s, 1, k + a + n),
              contents |-> SubSeq(s, k + a + 1, k + a + n)]
     ELSE [matched |-> FALSE]

\* The class [xref \n\r\dfn] of the scan for the end of the table.
ScanAlphabet == Digits \cup {"x", "r", "e", "f", " ", "\n", "\r", "n"}

\* String.fromCharCode(trimmed[idx]).match(/^[xref \n\r\dfn]/)
scanMatches(arr, i) == fromCharCode(elementAt(arr, i)) \in ScanAlphabet

(***************************************************************************)
(* The buffers the recognizer is run on                                    *)
(***************************************************************************)

\* The most subsections and the most entries per subsection of a generated table.
MaxSubsections == 2
MaxEntries == 2

\* The number n, given by its decimal expansion, written with w digits, zero
\* padded on the left.
padded(n, w) == [i \in 1..(w - Len(n)) |-> "0"] \o n

\* The concatenation of the texts of a sequence of texts.
RECURSIVE concat(_)
concat(ss) == IF ss = <<>> THEN <<>> ELSE ss[1] \o concat(Tail(ss))

\* The entries tables are generated from.
\* An offset of 2^31 and the largest offset and generation number of the
\* grammar are among them.
EntryValues ==
  << [offset |-> <<"0">>, generationNum |-> <<"6", "5", "5", "3", "5">>, isInUse |-> FALSE],
     [offset |-> <<"2", "0">>, generationNum |-> <<"0">>, isInUse |-> TRUE],
     [offset |-> <<"2", "1", "4", "7", "4", "8", "3", "6", "4", "8">>,
      generationNum |-> <<"1">>, isInUse |-> TRUE],
     [offset |-> <<"9", "9", "9", "9", "9", "9", "9", "9", "9", "9">>,
      generationNum |-> <<"9", "9", "9", "9", "9">>, isInUse |-> TRUE] >>

\* The subsection headers tables are generated from; the declared counts are
\* not tied to the number of entries that follow.  The last first number is
\* 2^53 + 1.
HeaderValues ==
  << [firstObjNum |-> <<"0">>, objCount |-> <<"1">>],
     [firstObjNum |-> <<"5">>, objCount |-> <<"2">>],
     [firstObjNum |-> <<"1", "2", "3", "4", "5", "6", "7", "8", "9", "0">>,
      objCount |-> <<"1", "2", "3", "4", "5">>],
     [firstObjNum |-> <<"9", "0", "0", "7", "1", "9", "9", "2", "5", "4", "7", "4",
                        "0", "9", "9", "3">>,
      objCount |-> <<"1">>] >>

\* The white space written after the keyword, after a header and after an entry.
Styles ==
  { [afterKeyword |-> <<"\n">>, afterHeader |-> <<"\n">>, afterEntry |-> <<" ", "\n">>],
    [afterKeyword |-> <<" ">>, afterHeader |-> <<"\r", "\n">>, afterEntry |-> <<"\r", "\n">>],
    [afterKeyword |-> <<>>, afterHeader |-> <<>>, afterEntry |-> <<>>] }

\* A generated table: k subsections of n entries each, the headers and the
\* entries taken in rotation from HeaderValues and EntryValues, from `start` on.
TableShapes ==
  [k : 1..MaxSubsections, n : 1..MaxEntries, start : 1..Len(EntryValues)]

headerOf(shape, i) == HeaderValues[((shape.start + i - 2) % Len(HeaderValues)) + 1]

entryOf(shape, i, j) == EntryValues[((shape.start + i + j - 3) % Len(EntryValues)) + 1]

\* The text of one entry.
entryText(e) ==
  padded(e.offset, OffsetWidth) \o <<" ">> \o padded(e.generationNum, GenNumWidth)
    \o <<" ">> \o (IF e.isInUse THEN <<"n">> ELSE <<"f">>)

\* The text of subsection i of a generated table.
subsectionText(shape, style, i) ==
  headerOf(shape, i).firstObjNum \o <<" ">>
    \o headerOf(shape, i).objCount \o style.afterHeader
    \o concat([j \in 1..shape.n |-> entryText(entryOf(shape, i, j)) \o style.afterEntry])

\* The text of a generated table: "xref" WS Subsection+
tableText(shape, style) ==
  XRefKeyword \o style.afterKeyword
    \o concat([i \in 1..shape.k |-> subsectionText(shape, style, i)])

\* The Table a generated table stands for.
tableValue(shape) ==
  [subsections |->
     [i \in 1..shape.k |->
        [entries |-> [j \in 1..shape.n |-> entryOf(shape, i, j)],
         firstObjNum |-> headerOf(shape, i).firstObjNum]]]

TableTexts == {tableText(shape, style) : shape \in TableShapes, style \in Styles}

\* Texts that are no table: the keyword alone, the keyword and white space,
\* a wrong keyword, a short offset, a header with no entry, an entry with no header.
OtherTexts ==
  LET entry == entryText(EntryValues[1])
      header == <<"0", " ", "1", "\n">>
  IN { <<>>,
       XRefKeyword,
       XRefKeyword \o <<"\n">>,
       <<"X", "r", "e", "f", "\n">> \o header \o entry,
       <<"f">> \o XRefKeyword \o <<"\n">> \o header \o entry,
       XRefKeyword \o <<"\n">> \o header
         \o <<"1", "2", "3", " ", "6", "5", "5", "3", "5", " ", "f", "\n">>,
       XRefKeyword \o <<"\n">> \o header,
       XRefKeyword \o <<"\n">> \o entry }

\* What follows the table in the buffer.
Followers ==
  { <<>>,
    <<"t", "r", "a", "i", "l", "e", "r">>,
    <<"1", "2", " ", "0", " ", "o", "b", "j">>,
    <<"f">>,
    XRefKeyword }

\* The white space around the text in the buffer.
Margins ==
  { [before |-> <<>>, after |-> <<>>],
    [before |-> <<"\n", " ">>, after |-> <<>>],
    [before |-> <<" ">>, after |-> <<"\r", "\n">>] }

Buffers ==
  { bytesOf(m.before \o text \o follower \o m.after) :
      m \in Margins, text \in TableTexts \cup OtherTexts, follower \in Followers }

(***************************************************************************)
(* The state of a call                                                     *)
(***************************************************************************)

VARIABLES
  pc,            \* the position of the call
  input,         \* parseXRefTable: the buffer
  handler,       \* parseXRefTable: whether onParseXRefTable is supplied
  trimmed,       \* parseXRefTable: trimArray(input)
  idx,           \* parseXRefTable: the scan index
  fullMatch,     \* parseXRefTable: the text xRefTableRegex matched
  subsections,   \* parseXRefTable: what parseSubsections returned
  xRefTable,     \* parseXRefTable: the Table
  handlerCalls,  \* the arguments of the calls of onParseXRefTable so far
  result,        \* what parseXRefTable returned
  secInput,      \* parseSubsections: input
  secRemainder,  \* parseSubsections: remainder
  sectionsArr,   \* parseSubsections: sectionsArr
  secMatch,      \* parseSubsections: the match of the current iteration
  entries,       \* parseSubsections: what parseEntries returned
  entInput,      \* parseEntries: input
  entRemainder,  \* parseEntries: remainder
  entriesArr     \* parseEntries: entriesArr

vars ==
  << pc, input, handler, trimmed, idx, fullMatch, subsections, xRefTable,
     handlerCalls, result, secInput, secRemainder, sectionsArr, secMatch,
     entries, entInput, entRemainder, entriesArr >>

tableVars == << input, handler, trimmed, idx, fullMatch, subsections, xRefTable,
                handlerCalls, result >>
secVars == << secInput, secRemainder, sectionsArr, secMatch, entries >>
entVars == << entInput, entRemainder, entriesArr >>

\* A value not yet assigned, the value null, and an array.
Unset == [kind |-> "unset"]
Null == [kind |-> "null"]
Array(a) == [kind |-> "array", items |-> a]

Init ==
  /\ pc = "parseXRefTable"
  /\ input \in Buffers
  /\ handler \in BOOLEAN
  /\ trimmed = <<>>
  /\ idx = 0
  /\ fullMatch = <<>>
  /\ subsections = Unset
  /\ xRefTable = Unset
  /\ handlerCalls = <<>>
  /\ result = Unset
  /\ secInput = <<>>
  /\ secRemainder = <<>>
  /\ sectionsArr = <<>>
  /\ secMatch = [matched |-> FALSE]
  /\ entries = Unset
  /\ entInput = <<>>
  /\ entRemainder = <<>>
  /\ entriesArr = <<>>

(***************************************************************************)
(* parseEntries                                                            *)
(***************************************************************************)

\* const trimmed = input.trim(); const entriesArr = []; let remainder = trimmed;
EntriesStart ==
  /\ pc = "parseEntries"
  /\ entRemainder' = trim(entInput)
  /\ entriesArr' = <<>>
  /\ pc' = "entriesLoop"
  /\ UNCHANGED << tableVars, secVars, entInput >>

\* entryFrom with the test of the flag turned round: isInUse === 'f'.
entryFromFreeFlag(m) ==
  [offset |-> Number(m.offset),
   generationNum |-> Number(m.genNum),
   isInUse |-> (m.isInUse = <<"f">>)]

\* The entry an entryRegex match decodes to.
entryFrom(m) ==
  [offset |-> Number(m.offset),
   generationNum |-> Number(m.genNum),
   isInUse |-> (m.isInUse = <<"n">>)]

\* advance without the substring: the matched text is never dropped.
advanceNowhere(remainder, m) == trim(remainder)

\* The rest of the text after a match: remainder.substring(fullMatch.length).trim()
advance(remainder, m) == trim(substring(remainder, Len(m.fullMatch)))

\* EntryStep with a break in place of return null: the entries matched so
\* far are returned when a token does not match.
EntryStepPartial ==
  /\ pc = "entriesLoop"
  /\ Len(entRemainder) > 0
  /\ LET m == entryRegex(entRemainder)
     IN IF ~m.matched
        THEN /\ entries' = Array(entriesArr)
             /\ pc' = "entriesReturned"
             /\ UNCHANGED << entRemainder, entriesArr >>
        ELSE /\ entriesArr' = Append(entriesArr, entryFrom(m))
             /\ entRemainder' = advance(entRemainder, m)
             /\ UNCHANGED << pc, entries >>
  /\ UNCHANGED << tableVars, secInput, secRemainder, sectionsArr, secMatch, entInput >>

\* One iteration of the loop of parseEntries.
EntryStep ==
  /\ pc = "entriesLoop"
  /\ Len(entRemainder) > 0
  /\ LET m == entryRegex(entRemainder)
     IN IF ~m.matched
        THEN /\ entries' = Null
             /\ pc' = "entriesReturned"
             /\ UNCHANGED << entRemainder, entriesArr >>
        ELSE /\ entriesArr' = Append(entriesArr, entryFrom(m))
             /\ entRemainder' = advance(entRemainder, m)
             /\ UNCHANGED << pc, entries >>
  /\ UNCHANGED << tableVars, secInput, secRemainder, sectionsArr, secMatch, entInput >>

\* The loop of parseEntries ends: return entriesArr;
EntriesReturn ==
  /\ pc = "entriesLoop"
  /\ Len(entRemainder) = 0
  /\ entries' = Array(entriesArr)
  /\ pc' = "entriesReturned"
  /\ UNCHANGED << tableVars, secInput, secRemainder, sectionsArr, secMatch, entVars >>

(***************************************************************************)
(* parseSubsections                                                        *)
(***************************************************************************)

\* const trimmed = input.trim(); const sectionsArr = []; let remainder = trimmed;
SubsectionsStart ==
  /\ pc = "parseSubsections"
  /\ secRemainder' = trim(secInput)
  /\ sectionsArr' = <<>>
  /\ pc' = "sectionsLoop"
  /\ UNCHANGED << tableVars, secInput, secMatch, entries, entVars >>

\* One iteration of the loop of parseSubsections, up to the call of parseEntries.
SubsectionStep ==
  /\ pc = "sectionsLoop"
  /\ Len(secRemainder) > 0
  /\ LET m == sectionsRegex(secRemainder)
     IN IF ~m.matched
        THEN /\ subsections' = Null
             /\ pc' = "subsectionsReturned"
             /\ UNCHANGED << secMatch, entInput >>
        ELSE /\ secMatch' = m
             /\ entInput' = m.entriesStr
             /\ pc' = "parseEntries"
             /\ UNCHANGED subsections
  /\ UNCHANGED << input, handler, trimmed, idx, fullMatch, xRefTable, handlerCalls,
                  result, secInput, secRemainder, sectionsArr, entries,
                  entRemainder, entriesArr >>

\* The Subsection built from the entries and the header of a match:
\* PDFXRef.Subsection.from(entries).setFirstObjNum(Number(firstObjNum))
subsectionFrom(es, m) == [entries |-> es, firstObjNum |-> Number(m.firstObjNum)]

\* The rest of the iteration, once parseEntries has returned.
SubsectionPush ==
  /\ pc = "entriesReturned"
  /\ IF entries = Null
     THEN /\ subsections' = Null
          /\ pc' = "subsectionsReturned"
          /\ UNCHANGED << sectionsArr, secRemainder >>
     ELSE /\ sectionsArr' = Append(sectionsArr, subsectionFrom(entries.items, secMatch))
          /\ secRemainder' = advance(secRemainder, secMatch)
          /\ pc' = "sectionsLoop"
          /\ UNCHANGED subsections
  /\ UNCHANGED << input, handler, trimmed, idx, fullMatch, xRefTable, handlerCalls,
                  result, secInput, secMatch, entries, entVars >>

\* The loop of parseSubsections ends: return sectionsArr;
SubsectionsReturn ==
  /\ pc = "sectionsLoop"
  /\ Len(secRemainder) = 0
  /\ subsections' = Array(sectionsArr)
  /\ pc' = "subsectionsReturned"
  /\ UNCHANGED << input, handler, trimmed, idx, fullMatch, xRefTable, handlerCalls,
                  result, secVars, entVars >>

(***************************************************************************)
(* parseXRefTable                                                          *)
(***************************************************************************)

\* const trimmed = trimArray(input); let idx = 0;
TrimInput ==
  /\ pc = "parseXRefTable"
  /\ trimmed' = trimArray(input)
  /\ idx' = 0
  /\ pc' = "scan"
  /\ UNCHANGED << input, handler, fullMatch, subsections, xRefTable, handlerCalls,
                  result, secVars, entVars >>

\* One iteration of the scan: while (...match(/^[xref \n\r\dfn]/)) idx += 1;
ScanStep ==
  /\ pc = "scan"
  /\ scanMatches(trimmed, idx)
  /\ idx' = idx + 1
  /\ UNCHANGED << pc, input, handler, trimmed, fullMatch, subsections, xRefTable,
                  handlerCalls, result, secVars, entVars >>

\* The scan ends; the text up to idx is matched against xRefTableRegex.
MatchTable ==
  /\ pc = "scan"
  /\ ~scanMatches(trimmed, idx)
  /\ LET result1 == xRefTableRegex(arrayToString(trimmed, 0, idx))
     IN IF ~result1.matched
        THEN /\ result' = Null
             /\ pc' = "done"
             /\ UNCHANGED << fullMatch, secInput >>
        ELSE /\ fullMatch' = result1.fullMatch
             /\ secInput' = result1.contents
             /\ pc' = "parseSubsections"
             /\ UNCHANGED result
  /\ UNCHANGED << input, handler, trimmed, idx, subsections, xRefTable, handlerCalls,
                  secRemainder, sectionsArr, secMatch, entries, entVars >>

\* BuildTable with the handler called before the test of subsections.
BuildTableNotifyFirst ==
  /\ pc = "subsectionsReturned"
  /\ handlerCalls' = IF handler THEN Append(handlerCalls, subsections) ELSE handlerCalls
  /\ IF subsections = Null
     THEN /\ result' = Null
          /\ pc' = "done"
          /\ UNCHANGED xRefTable
     ELSE /\ xRefTable' = [subsections |-> subsections.items]
          /\ pc' = "return"
          /\ UNCHANGED result
  /\ UNCHANGED << input, handler, trimmed, idx, fullMatch, subsections,
                  secVars, entVars >>

\* if (!subsections) return null; const xRefTable = PDFXRef.Table.from(subsections);
BuildTable ==
  /\ pc = "subsectionsReturned"
  /\ IF subsections = Null
     THEN /\ result' = Null
          /\ pc' = "done"
          /\ UNCHANGED xRefTable
     ELSE /\ xRefTable' = [subsections |-> subsections.items]
          /\ pc' = "notify"
          /\ UNCHANGED result
  /\ UNCHANGED << input, handler, trimmed, idx, fullMatch, subsections, handlerCalls,
                  secVars, entVars >>

\* if (onParseXRefTable) onParseXRefTable(xRefTable);
Notify ==
  /\ pc = "notify"
  /\ handlerCalls' = IF handler THEN Append(handlerCalls, xRefTable) ELSE handlerCalls
  /\ pc' = "return"
  /\ UNCHANGED << input, handler, trimmed, idx, fullMatch, subsections, xRefTable,
                  result, secVars, entVars >>

\* Return with the scan index in place of the length of the match.
ReturnPastScan ==
  /\ pc = "return"
  /\ result' = [kind |-> "pair", table |-> xRefTable,
                remainder |-> subarray(trimmed, idx)]
  /\ pc' = "done"
  /\ UNCHANGED << input, handler, trimmed, idx, fullMatch, subsections, xRefTable,
                  handlerCalls, secVars, entVars >>

\* return [xRefTable, trimmed.subarray(fullMatch.length)];
Return ==
  /\ pc = "return"
  /\ result' = [kind |-> "pair", table |-> xRefTable,
                remainder |-> subarray(trimmed, Len(fullMatch))]
  /\ pc' = "done"
  /\ UNCHANGED << input, handler, trimmed, idx, fullMatch, subsections, xRefTable,
                  handlerCalls, secVars, entVars >>

Next ==
  \/ TrimInput
  \/ ScanStep
  \/ MatchTable
  \/ SubsectionsStart
  \/ SubsectionStep
  \/ EntriesStart
  \/ EntryStep
  \/ EntriesReturn
  \/ SubsectionPush
  \/ SubsectionsReturn
  \/ BuildTable
  \/ Notify
  \/ Return

Spec == Init /\ [][Next]_vars

(***************************************************************************)
(* parseEntries on its own                                                 *)
(***************************************************************************)

\* The most entry tokens of a generated entries text.
MaxTokens == 3

\* The white space that separates the tokens of a generated entries text.
Separators == { <<" ">>, <<"\n">>, <<"\r", "\n">>, <<"\t">> }

\* The ways a token is malformed: a 9 digit offset, an 11 digit offset, a 4
\* digit generation number, a flag that is neither n nor f, an upper case
\* flag, two spaces after the offset, a second letter after the flag.
Damages == 1..7

malformedText(e, damage) ==
  LET flag == IF e.isInUse THEN <<"n">> ELSE <<"f">>
      off == padded(e.offset, OffsetWidth)
      gen == padded(e.generationNum, GenNumWidth)
  IN CASE damage = 1 -> Tail(off) \o <<" ">> \o gen \o <<" ">> \o flag
       [] damage = 2 -> <<"0">> \o off \o <<" ">> \o gen \o <<" ">> \o flag
       [] damage = 3 -> off \o <<" ">> \o Tail(gen) \o <<" ">> \o flag
       [] damage = 4 -> off \o <<" ">> \o gen \o <<" ">> \o <<"x">>
       [] damage = 5 -> off \o <<" ">> \o gen \o <<" ">> \o <<"N">>
       [] damage = 6 -> off \o <<" ", " ">> \o gen \o <<" ">> \o flag
       [] damage = 7 -> off \o <<" ">> \o gen \o <<" ">> \o flag \o <<"n">>

\* A generated entries text: n tokens taken in rotation from EntryValues, the
\* token at position bad (if any) malformed, with white space around or not.
EntriesShapes ==
  { sh \in [n : 0..MaxTokens, start : 1..Len(EntryValues), sep : Separators,
            margin : BOOLEAN, bad : 0..MaxTokens, damage : Damages] :
      /\ sh.bad <= sh.n
      /\ sh.bad = 0 => sh.damage = 1 }

tokenOf(sh, j) == EntryValues[((sh.start + j - 2) % Len(EntryValues)) + 1]

entriesText(sh) ==
  LET token(j) == IF j = sh.bad THEN malformedText(tokenOf(sh, j), sh.damage)
                  ELSE entryText(tokenOf(sh, j))
      body == concat([j \in 1..sh.n |-> IF j = 1 THEN token(j) ELSE sh.sep \o token(j)])
  IN IF sh.margin THEN sh.sep \o body \o sh.sep ELSE body

\* The entries of a generated entries text with no malformed token.
entriesValue(sh) == [j \in 1..sh.n |-> tokenOf(sh, j)]

\* The well formed texts with their entries, and the texts with a malformed token.
WellFormedCases == {<<entriesText(sh), entriesValue(sh)>> : sh \in {x \in EntriesShapes : x.bad = 0}}
MalformedCases == {<<entriesText(sh), sh.bad>> : sh \in {x \in EntriesShapes : x.bad > 0}}

EntriesTexts == {c[1] : c \in WellFormedCases \cup MalformedCases}

InitEntries ==
  /\ pc = "parseEntries"
  /\ entInput \in EntriesTexts
  /\ input = <<>>
  /\ handler = FALSE
  /\ trimmed = <<>>
  /\ idx = 0
  /\ fullMatch = <<>>
  /\ subsections = Unset
  /\ xRefTable = Unset
  /\ handlerCalls = <<>>
  /\ result = Unset
  /\ secInput = <<>>
  /\ secRemainder = <<>>
  /\ sectionsArr = <<>>
  /\ secMatch = [matched |-> FALSE]
  /\ entries = Unset
  /\ entRemainder = <<>>
  /\ entriesArr = <<>>

NextEntries == EntriesStart \/ EntryStep \/ EntriesReturn

SpecEntries == InitEntries /\ [][NextEntries]_vars

(***************************************************************************)
(* Properties                                                              *)
(***************************************************************************)

\* Whether buffer a starts with buffer b.
startsWith(a, b) == Len(b) <= Len(a) /\ SubSeq(a, 1, Len(b)) = b

\* The generated tables as buffers.
TableBuffers == {bytesOf(t) : t \in TableTexts}

\* The buffers that hold a generated table and nothing else but white space
\* around it, each with the Table it stands for.
TableCases ==
  { << bytesOf(m.before \o tableText(shape, style) \o m.after), tableValue(shape) >> :
      m \in Margins, shape \in TableShapes, style \in Styles }

\* The text of the trimmed buffer does not begin with the keyword "xref".
NoKeyword ==
  LET t == trimArray(input)
  IN arrayToString(t, 0, Len(XRefKeyword)) # XRefKeyword

\* C1: whenever parseXRefTable returns a pair, its Table has at least one
\* Subsection.
C1_TableNonEmpty ==
  (pc = "done" /\ result.kind = "pair") => Len(result.table.subsections) >= 1

\* C2: with a handler supplied, the handler has been called exactly once,
\* with the returned Table, by the time a pair is returned, and it has not
\* been called at all when null is returned; it is never called twice.
C2_HandlerOnce ==
  /\ Len(handlerCalls) <= 1
  /\ (result.kind = "pair" /\ handler) => handlerCalls = <<result.table>>
  /\ result.kind = "null" => handlerCalls = <<>>
  /\ ~handler => handlerCalls = <<>>

\* C2 happens: a call with a handler has returned a table of two subsections
\* and the handler was called with it.
C2_Witness ==
  /\ pc = "done" /\ handler /\ result.kind = "pair"
  /\ Len(result.table.subsections) = 2
  /\ handlerCalls = <<result.table>>

\* C3: a trimmed buffer that begins with a table makes parseXRefTable return
\* a pair, whatever follows the table.
C3_TablePrefixSucceeds ==
  (pc = "done" /\ \E t \in TableBuffers : startsWith(trimArray(input), t))
    => result.kind = "pair"

\* C4: on success the matched text followed by the remainder is the trimmed
\* buffer, byte for byte, and the buffer is its leading white space, the
\* matched text and the remainder: no byte after the table is dropped or
\* altered.
C4_RemainderIsSuffix ==
  result.kind = "pair" =>
    LET lead == runAt(arrayToString(input, 0, Len(input)), 1, TrimArrayWhiteSpace)
    IN /\ bytesOf(fullMatch) \o result.remainder = trimmed
       /\ input = SubSeq(input, 1, lead) \o bytesOf(fullMatch) \o result.remainder

\* C4 happens: a pair is returned for a buffer that begins with white space
\* and ends with it after the bytes that follow the table, and the remainder
\* holds these bytes and the white space at the end.
C4_Witness ==
  /\ pc = "done" /\ result.kind = "pair"
  /\ Len(result.table.subsections) >= 1
  /\ fromCharCode(input[1]) \in TrimArrayWhiteSpace
  /\ Len(result.remainder) > 2
  /\ fromCharCode(result.remainder[1]) = "t"
  /\ fromCharCode(result.remainder[Len(result.remainder)]) = "\n"

\* C5: a buffer that holds "xref" and k >= 1 well formed subsections gives
\* the Table of these k subsections in order, each with the first number of
\* its header and its entries decoded in order, whatever count the header
\* declares.  The first number of a header has any number of digits, and
\* Number rounds it from 2^53 on.
C5_TableDecoded ==
  pc = "done" =>
    \A c \in TableCases :
      input = c[1] => (result.kind = "pair" /\ result.table = c[2])

\* C6: when the trimmed buffer does not begin with "xref", parseXRefTable
\* returns null, so no remainder, and no step writes the buffer.
C6_NoKeywordFails ==
  [][ /\ (pc' = "done" /\ NoKeyword) => result' = Null
      /\ input' = input ]_vars

\* C6 happens: a buffer of digits, white space and letters of the scan
\* alphabet that begins with "fxref" was refused.
C6_Witness ==
  /\ pc = "done" /\ NoKeyword /\ result = Null
  /\ idx > Len(XRefKeyword)

\* C7: an entries text with one malformed token, wherever it is, makes
\* parseEntries return null.
C7_AllOrNothing ==
  pc = "entriesReturned" =>
    \A c \in MalformedCases : entInput = c[1] => entries = Null

\* C7 happens: the malformed token was the last of three, two entries had been
\* matched, and null was returned.
C7_Witness ==
  /\ pc = "entriesReturned" /\ entries = Null
  /\ \E c \in MalformedCases : entInput = c[1] /\ c[2] = 3
  /\ Len(entriesArr) = 2

\* C8: an entries text of N >= 0 well formed tokens makes parseEntries
\* return the N entries in order; an empty or blank text gives the empty list.
C8_EntriesDecoded ==
  pc = "entriesReturned" =>
    \A c \in WellFormedCases : entInput = c[1] => entries = Array(c[2])

\* C8 happens: a text of three tokens gave its three entries, the first one
\* with the largest offset and generation number of the grammar.
C8_Witness ==
  /\ pc = "entriesReturned"
  /\ entries.kind = "array" /\ Len(entries.items) = 3
  /\ entries.items[1].offset = <<"9", "9", "9", "9", "9", "9", "9", "9", "9", "9">>
  /\ entries.items[1].generationNum = <<"9", "9", "9", "9", "9">>

\* A bound on the number of steps a call has left, in terms of the lengths of
\* the texts it still has to read.
stepsLeft ==
  LET afterSection == 4 + 5 * (Len(secRemainder) - Len(secMatch.fullMatch))
  IN CASE pc = "done" -> 0
       [] pc = "return" -> 1
       [] pc = "notify" -> 2
       [] pc = "subsectionsReturned" -> 3
       [] pc = "sectionsLoop" -> 4 + 5 * Len(secRemainder)
       [] pc = "entriesReturned" -> afterSection + 1
       [] pc = "entriesLoop" -> afterSection + 2 + Len(entRemainder)
       [] pc = "parseEntries" -> afterSection + 3 + Len(entInput)
       [] pc = "parseSubsections" -> 5 + 5 * Len(secInput)
       [] pc = "scan" -> 6 + 6 * Len(trimmed) - idx
       [] pc = "parseXRefTable" -> 7 + 6 * Len(input)

\* C9: no call runs for ever.  After every step the scan index is within the
\* trimmed buffer, every iteration of the two loops shortens the text that
\* remains, and every step lowers a bound on the steps left that is never
\* negative.
C9_Terminates ==
  [][ /\ idx' <= Len(trimmed')
      /\ (pc = "entriesLoop" /\ pc' = "entriesLoop")
           => Len(entRemainder') < Len(entRemainder)
      /\ (pc = "entriesReturned" /\ pc' = "sectionsLoop")
           => Len(secRemainder') < Len(secRemainder)
      /\ stepsLeft' >= 0
      /\ stepsLeft' < stepsLeft ]_vars

\* C9 happens: every byte of a buffer was in the scan alphabet, the scan
\* stopped at its end, both loops iterated and the call returned.
C9_Witness ==
  /\ pc = "done"
  /\ Len(trimmed) > 0 /\ idx = Len(trimmed)
  /\ Len(sectionsArr) = 2
  /\ Len(entriesArr) = 2

\* C10: whenever parseEntries returns to parseSubsections it returns at
\* least one entry, and every Subsection of a returned Table has an entry.
C10_EntriesNeverFail ==
  /\ pc = "entriesReturned" => (entries.kind = "array" /\ Len(entries.items) >= 1)
  /\ result.kind = "pair" =>
       \A i \in 1..Len(result.table.subsections) :
         Len(result.table.subsections[i].entries) >= 1

\* C10 happens: the subsection pattern matched and parseEntries returned the
\* two entries of the block.
C10_Witness ==
  /\ pc = "entriesReturned"
  /\ secMatch.matched
  /\ entries.kind = "array" /\ Len(entries.items) = 2

====
